---- MODULE Spec2Model ----
(***************************************************************************)
(* Model of the multi-agent research workflow of Deep-Research-Agent:      *)
(* the LangGraph state graph of src/graph/workflow.py and its four nodes   *)
(* (lead_planning, subagent_executor, lead_synthesis, citation_agent).     *)
(*                                                                         *)
(* Of AgentState, messages is kept as user_query (the content of its only  *)
(* HumanMessage; the nodes only append AIMessages), and research_plan,     *)
(* conversation_id, output_dir and provider, which no routing function or  *)
(* node decision reads, are left out.  The variables marked "history"      *)
(* record what happened and are read by no action's program part.          *)
(*                                                                         *)
(* Conventions                                                             *)
(*   - a text is a sequence of string tokens; "" is <<>> and string        *)
(*     concatenation is \o;                                                *)
(*   - a confidence is an integer number of hundredths (0.7 is 70);        *)
(*   - a JSON object is a record whose DOMAIN is the set of keys present;  *)
(*   - a value that is not a string is the marker NonStr.                  *)
(***************************************************************************)
EXTENDS Integers, Sequences, FiniteSets, TLC

(***************************************************************************)
(* Bounds of the model.                                                    *)
(***************************************************************************)
\* largest max_iterations a session is started with
MaxRounds == 3
\* longest batch of tasks handed to run_subagents_parallel on its own
MaxBatch == 3
\* number of synthesis passes after which the exploration stops
MaxPasses == 4
\* longest all_sources and longest list of results the merge is applied to
\* on its own
MaxSources == 2
MaxFindings == 2
\* longest list of indices a citation response is given on its own
MaxCited == 2

(***************************************************************************)
(* Data: sources, tasks, findings.                                         *)
(***************************************************************************)
Source(u, t, sn, sc) == [url |-> u, title |-> t, snippet |-> sn, score |-> sc]

\* two sources share the url "u1" and differ in title, snippet and score
SrcA  == Source("u1", "A", "sa", 90)
SrcA2 == Source("u1", "B", "sb", 40)
SrcB  == Source("u2", "C", "sc", 70)

SourceLists == { <<>>, <<SrcA>>, <<SrcA2, SrcB>> }

FieldNames ==
    {"task_id", "objective", "search_strategy", "output_format",
     "tool_guidance", "boundaries"}

NonStr == "<non-str>"

\* SubagentTask(**task_data): pydantic accepts the entry iff every field is
\* present and is a string; extra keys are ignored
SubagentTaskValid(c) ==
    /\ FieldNames \subseteq DOMAIN c
    /\ \A k \in FieldNames : c[k] # NonStr

SubagentTask(c) == [k \in FieldNames |-> c[k]]

TaskData(id, obj) ==
    [task_id |-> id, objective |-> obj, search_strategy |-> "broad",
     output_format |-> "f", tool_guidance |-> "g", boundaries |-> "b"]

SubagentResult(id, f, srcs, conf, g) ==
    [task_id |-> id, findings |-> f, sources |-> srcs, confidence |-> conf,
     gaps |-> g]

\* variant: the field has no range constraint
ConfidenceValid_unchecked(conf) == TRUE

\* SubagentResult.confidence: Field(ge=0, le=1)
ConfidenceValid(conf) == conf >= 0 /\ conf <= 100

\* JSON values a response can carry under "confidence"
JNumber(n) == [type |-> "number", num |-> n, text |-> ""]
JString(t) == [type |-> "string", num |-> 0, text |-> t]
JTrue == [type |-> "true", num |-> 1, text |-> ""]
JNull == [type |-> "null", num |-> 0, text |-> ""]

\* float(v), in hundredths: the value, or the exception raised
Float(v) ==
    IF v.type = "number" THEN [err |-> "", value |-> v.num]
    ELSE IF v.type = "true" THEN [err |-> "", value |-> 100]
    ELSE IF v.type = "null" THEN [err |-> "TypeError", value |-> 0]
    ELSE IF v.text = "0.8" THEN [err |-> "", value |-> 80]
    ELSE IF v.text = "1.5" THEN [err |-> "", value |-> 150]
    ELSE [err |-> "ValueError", value |-> 0]

\* filler of a slot that holds no result
NoResult == SubagentResult("", "", <<>>, 0, <<>>)

RECURSIVE SeqsUpTo(_, _)
SeqsUpTo(S, n) ==
    IF n = 0 THEN { <<>> }
    ELSE LET shorter == SeqsUpTo(S, n - 1)
         IN  shorter \cup { Append(s, x) : s \in shorter, x \in S }

(***************************************************************************)
(* Inputs: the queries and the responses of the reasoning service.         *)
(***************************************************************************)
Queries == {"", "q"}

\* entries of a planning response's "subagent_tasks"
PlanP1  == TaskData("p1", "o")
PlanP2  == TaskData("p2", "o")
PlanBad == [task_id |-> "p3", objective |-> "o"]

PlanLists ==
    { <<>>, <<PlanP1>>, <<PlanP1, PlanP2>>, <<PlanP2, PlanP2>>,
      <<PlanP1, PlanBad>> }

PlanningResponses ==
    { [parse_ok |-> FALSE, estimated_subagents |-> 2, subagent_tasks |-> <<>>] }
    \cup
    { [parse_ok |-> TRUE, estimated_subagents |-> 2, subagent_tasks |-> ts] :
        ts \in PlanLists }
    \cup
    { [parse_ok |-> TRUE, estimated_subagents |-> 0,
       subagent_tasks |-> <<PlanP1>>] }

\* data.get(k, default) of a parsed JSON object
DataGet(d, k, default) == IF k \in DOMAIN d THEN d[k] ELSE default

\* final message of a worker's ReAct run, or the fact that the run raised
WorkerResponses ==
    { [kind |-> "raise", content |-> "boom", data |-> [gaps |-> <<>>]] }
    \cup
    { [kind |-> "json", content |-> "js",
       data |-> [findings |-> "F", sources |-> sl,
                 confidence |-> JNumber(90), gaps |-> <<"g">>]] :
        sl \in SourceLists \ { <<>> } }
    \cup
    { [kind |-> "nonjson", content |-> "raw", data |-> [gaps |-> <<>>]] }

\* entries of a synthesis response's "next_tasks"
NextN1 == TaskData("n1", "o")
NextN2 == TaskData("n2", "o")
NextMissing ==
    [task_id |-> "n3", objective |-> "o", search_strategy |-> "broad",
     output_format |-> "f", tool_guidance |-> "g"]
NextNonStr == TaskData("n4", NonStr)
\* all six fields present, id and objective empty strings
NextEmpty == TaskData("", "")

NextTaskLists ==
    { <<>>, <<NextN1>>, <<NextN2, NextN1>>, <<NextMissing>>,
      <<NextMissing, NextN1>>, <<NextN1, NextNonStr>>,
      <<NextNonStr, NextMissing>>, <<NextEmpty>> }

SynthTexts == { <<>>, <<"S1">> }

SynthesisData ==
    { [synthesis |-> s, needs_more_research |-> b, next_tasks |-> nt] :
        s \in SynthTexts, b \in BOOLEAN,
        nt \in NextTaskLists }
    \cup
    { [synthesis |-> s, needs_more_research |-> TRUE] : s \in SynthTexts }

SynthesisResponses ==
    { [parse_ok |-> FALSE, data |-> [synthesis |-> <<>>]] }
    \cup { [parse_ok |-> TRUE, data |-> d] : d \in SynthesisData }

CitationResponses ==
    { [parse_ok |-> FALSE, data |-> [citations_used |-> <<>>]],
      [parse_ok |-> TRUE, data |-> [report |-> <<"R">>]],
      [parse_ok |-> TRUE, data |-> [citations_used |-> <<1>>]],
      [parse_ok |-> TRUE,
       data |-> [report |-> <<"R">>, citations_used |-> <<2, 1>>]],
      [parse_ok |-> TRUE,
       data |-> [report |-> <<"R">>, citations_used |-> <<0, 4, 1>>]] }

(***************************************************************************)
(* State.                                                                  *)
(***************************************************************************)
VARIABLES
    pc,                 \* node the graph runs next
    user_query,         \* content of the HumanMessage of state["messages"]
    subagent_tasks,     \* AgentState fields
    subagent_results,
    memory_context,
    iteration_count,
    max_iterations,
    research_complete,
    all_sources,
    final_report,       \* what MemoryStore.save_final_report has written
    gathered,           \* run_subagents_parallel: one slot per coroutine
    arrival,            \* history: indices of the coroutines, in completion order
    prev,               \* history: node that ran last
    synth_passes,       \* history: number of synthesis passes so far
    planner_calls,      \* history: number of planning requests sent so far
    synth_log,          \* history: what the latest synthesis pass saw and decided
    pending,            \* history: fate of the next tasks accepted last
    plan_log,           \* history: outcome of the latest planning pass
    exec_count          \* history: number of batches handed to the executor

vars ==
    <<pc, user_query, subagent_tasks, subagent_results, memory_context,
      iteration_count, max_iterations, research_complete, all_sources,
      final_report, gathered, arrival, prev, synth_passes, planner_calls,
      synth_log, pending, plan_log, exec_count>>

agent_state ==
    <<subagent_tasks, subagent_results, memory_context, iteration_count,
      max_iterations, research_complete, all_sources>>

NoPlan == [outcome |-> "none", n |-> 0]

NoLog ==
    [ran |-> FALSE, iteration |-> 0, parsed |-> FALSE, flag |-> FALSE,
     survivors |-> <<>>, text |-> <<>>, continue |-> FALSE]

\* get_initial_state, with main's override of max_iterations
get_initial_state ==
    /\ pc = "lead_planning"
    /\ user_query \in Queries
    /\ subagent_tasks = <<>>
    /\ subagent_results = <<>>
    /\ memory_context = <<>>
    /\ iteration_count = 0
    /\ max_iterations \in 1..MaxRounds
    /\ research_complete = FALSE
    /\ all_sources = <<>>
    /\ final_report = [saved |-> FALSE, report |-> <<>>, sources |-> <<>>]
    /\ gathered = <<>>
    /\ arrival = <<>>
    /\ prev = "START"
    /\ synth_passes = 0
    /\ planner_calls = 0
    /\ synth_log = NoLog
    /\ pending = "none"
    /\ plan_log = NoPlan
    /\ exec_count = 0

Init == get_initial_state

(***************************************************************************)
(* Routing functions of the graph.                                         *)
(***************************************************************************)
should_continue_research(complete, count, maxit) ==
    IF complete \/ count >= maxit THEN "citation" ELSE "continue"

\* variant: the executor is always skipped
has_tasks_neverExecute(tasks) == "synthesize"

has_tasks(tasks) == IF tasks # <<>> THEN "execute" ELSE "synthesize"

\* conditional edges out of lead_planning
AfterPlanning(tasks) ==
    IF has_tasks(tasks) = "execute" THEN "subagent_executor"
    ELSE "lead_synthesis"

\* conditional edges out of lead_synthesis
AfterSynthesis(complete, count, maxit) ==
    IF should_continue_research(complete, count, maxit) = "continue"
    THEN "lead_planning"
    ELSE "citation_agent"

(***************************************************************************)
(* lead_planning                                                           *)
(***************************************************************************)
\* the try block of the planning node succeeds
PlanParses(resp) ==
    /\ resp.parse_ok
    /\ \A i \in 1..Len(resp.subagent_tasks) :
          SubagentTaskValid(resp.subagent_tasks[i])
    /\ resp.estimated_subagents >= 1
    /\ resp.estimated_subagents <= 15

PlanTasks(resp) ==
    [i \in 1..Len(resp.subagent_tasks) |-> SubagentTask(resp.subagent_tasks[i])]

lead_researcher_planning_node(resp) ==
    /\ pc = "lead_planning"
    /\ IF user_query = ""
       THEN \* "No query found."
            /\ UNCHANGED <<subagent_tasks, iteration_count, planner_calls>>
            /\ plan_log' = [outcome |-> "noquery", n |-> 0]
            /\ pc' = AfterPlanning(subagent_tasks)
       ELSE /\ planner_calls' = planner_calls + 1
            /\ IF PlanParses(resp)
               THEN /\ subagent_tasks' = PlanTasks(resp)
                    /\ iteration_count' = 1
                    /\ plan_log' = [outcome |-> "ok",
                                    n |-> Len(resp.subagent_tasks)]
               ELSE \* "Error creating research plan"
                    /\ UNCHANGED <<subagent_tasks, iteration_count>>
                    /\ plan_log' = [outcome |-> "failed", n |-> 0]
            /\ pc' = AfterPlanning(subagent_tasks')
    /\ prev' = "lead_planning"
    /\ UNCHANGED <<user_query, subagent_results, memory_context,
                   max_iterations, research_complete, all_sources,
                   final_report, gathered, arrival, synth_passes, synth_log,
                   pending, exec_count>>

(***************************************************************************)
(* subagent_executor: the batch runs as concurrent coroutines.             *)
(***************************************************************************)
Slot(st, r) == [status |-> st, result |-> r]

\* variant: the fallback result is given no confidence at all
NotJsonResult_zeroConfidence(task, content) ==
    SubagentResult(task.task_id, content, <<>>, 0,
                   <<"Response was not in expected JSON format">>)

\* the two except branches of execute_subagent_task
NotJsonResult(task, content) ==
    SubagentResult(task.task_id, content, <<>>, 50,
                   <<"Response was not in expected JSON format">>)

ParseErrorResult(task, content) ==
    SubagentResult(task.task_id, content, <<>>, 30,
                   <<"Error parsing response">>)

\* outcome of one coroutine: a SubagentResult, or an exception
execute_subagent_task(task, resp) ==
    IF resp.kind = "raise"
    THEN Slot("raised", NoResult)
    ELSE IF resp.kind = "json"
    THEN LET findings == DataGet(resp.data, "findings", resp.content)
             conf == Float(DataGet(resp.data, "confidence", JNumber(70)))
         IN  IF conf.err = "TypeError"
             THEN Slot("returned", ParseErrorResult(task, resp.content))
             ELSE IF \/ conf.err = "ValueError"
                     \/ ~ConfidenceValid(conf.value)
                     \/ findings = NonStr
             THEN \* pydantic's ValidationError is a ValueError
                  Slot("returned", NotJsonResult(task, resp.content))
             ELSE Slot("returned",
                       SubagentResult(task.task_id, findings,
                                      DataGet(resp.data, "sources", <<>>),
                                      conf.value,
                                      DataGet(resp.data, "gaps", <<>>)))
    ELSE IF resp.kind = "nonjson"
    THEN Slot("returned", NotJsonResult(task, resp.content))
    ELSE \* the text is JSON but not an object: data.get raises
         Slot("returned", ParseErrorResult(task, resp.content))

\* variant: a failed task is reported like a malformed response
ExceptionResult_asMalformed(task) ==
    SubagentResult(task.task_id, "Error", <<>>, 50, <<>>)

\* the SubagentResult that stands for a coroutine that raised
ExceptionResult(task) ==
    SubagentResult(task.task_id, "Error", <<>>, 0,
                   <<"Subagent execution failed">>)

\* variant: outcomes are paired with the tasks in completion order
run_subagents_parallel_byArrival(tasks, results) ==
    [i \in 1..Len(results) |->
        IF results[arrival[i]].status = "raised"
        THEN ExceptionResult(tasks[arrival[i]])
        ELSE results[arrival[i]].result]

\* valid_results of run_subagents_parallel, from the gathered outcomes
run_subagents_parallel(tasks, results) ==
    [i \in 1..Len(results) |->
        IF results[i].status = "raised"
        THEN ExceptionResult(tasks[i])
        ELSE results[i].result]

\* variant: the wait ends with the first coroutine that completes
AllDone_firstCompleted(slots) ==
    \E i \in 1..Len(slots) : slots[i].status # "pending"

AllDone(slots) == \A i \in 1..Len(slots) : slots[i].status # "pending"

\* the node starts: one coroutine per task is created and awaited
ExecutorStart ==
    /\ pc = "subagent_executor"
    /\ IF subagent_tasks = <<>>
       THEN \* "No subagent tasks to execute."
            /\ pc' = "lead_synthesis"
            /\ prev' = "subagent_executor"
            /\ UNCHANGED <<gathered, arrival, pending, exec_count>>
       ELSE /\ pc' = "gather"
            /\ gathered' =
                 [i \in 1..Len(subagent_tasks) |-> Slot("pending", NoResult)]
            /\ arrival' = <<>>
            /\ pending' = IF pending = "accepted"
                             /\ subagent_tasks = synth_log.survivors
                          THEN "executed" ELSE pending
            /\ exec_count' = exec_count + 1
            /\ UNCHANGED prev
    /\ UNCHANGED <<user_query, agent_state, final_report, synth_passes,
                   planner_calls, synth_log, plan_log>>

\* coroutine i completes, in any order with respect to its siblings
TaskDone(i, resp) ==
    /\ pc = "gather"
    /\ i \in 1..Len(gathered)
    /\ gathered[i].status = "pending"
    /\ gathered' =
         [gathered EXCEPT ![i] = execute_subagent_task(subagent_tasks[i], resp)]
    /\ arrival' = Append(arrival, i)
    /\ UNCHANGED <<pc, user_query, agent_state, final_report, prev,
                   synth_passes, planner_calls, synth_log, pending, plan_log,
                   exec_count>>

\* variant: the node also returns an emptied task list
ExecutorReturn_clearsTasks ==
    /\ pc = "gather"
    /\ AllDone(gathered)
    /\ subagent_results' = run_subagents_parallel(subagent_tasks, gathered)
    /\ subagent_tasks' = <<>>
    /\ pc' = "lead_synthesis"
    /\ prev' = "subagent_executor"
    /\ UNCHANGED <<user_query, memory_context, iteration_count,
                   max_iterations, research_complete, all_sources,
                   final_report, gathered, arrival, synth_passes,
                   planner_calls, synth_log, pending, plan_log, exec_count>>

\* asyncio.gather returns: the node writes the batch's results
ExecutorReturn ==
    /\ pc = "gather"
    /\ AllDone(gathered)
    /\ subagent_results' = run_subagents_parallel(subagent_tasks, gathered)
    /\ pc' = "lead_synthesis"
    /\ prev' = "subagent_executor"
    /\ UNCHANGED <<user_query, subagent_tasks, memory_context, iteration_count,
                   max_iterations, research_complete, all_sources,
                   final_report, gathered, arrival, synth_passes,
                   planner_calls, synth_log, pending, plan_log, exec_count>>

subagent_executor_node ==
    \/ ExecutorStart
    \/ \E i \in 1..Len(gathered), resp \in WorkerResponses : TaskDone(i, resp)
    \/ ExecutorReturn

(***************************************************************************)
(* lead_synthesis                                                          *)
(***************************************************************************)
\* variant: the source is compared with the latest entry only
SourceIn_lastOnly(src, sources) ==
    sources # <<>> /\ sources[Len(sources)] = src

\* src in all_sources: equality of the whole dict
SourceIn(src, sources) == \E i \in 1..Len(sources) : sources[i] = src

RECURSIVE AppendNewSources(_, _)
AppendNewSources(sources, srcs) ==
    IF srcs = <<>> THEN sources
    ELSE AppendNewSources(
             IF SourceIn(Head(srcs), sources) THEN sources
             ELSE Append(sources, Head(srcs)),
             Tail(srcs))

\* variant: the list is rebuilt from the round's results only
CollectSources_roundOnly(sources, results) ==
    IF results = <<>> THEN <<>> ELSE Head(results).sources

\* the source-collecting loop over the round's results
RECURSIVE CollectSources(_, _)
CollectSources(sources, results) ==
    IF results = <<>> THEN sources
    ELSE CollectSources(AppendNewSources(sources, Head(results).sources),
                        Tail(results))

\* all(k in task_data for k in [...])
HasAllKeys(c) == FieldNames \subseteq DOMAIN c

\* new_tasks: the entries of next_tasks that pass the key check and the
\* construction of a SubagentTask, in their order
RECURSIVE ValidNextTasks(_)
ValidNextTasks(entries) ==
    IF entries = <<>> THEN <<>>
    ELSE IF HasAllKeys(Head(entries)) /\ SubagentTaskValid(Head(entries))
         THEN <<SubagentTask(Head(entries))>> \o ValidNextTasks(Tail(entries))
         ELSE ValidNextTasks(Tail(entries))

RECURSIVE ResultSections(_)
ResultSections(results) ==
    IF results = <<>> THEN <<>>
    ELSE <<"###", Head(results).task_id, Head(results).findings>>
         \o ResultSections(Tail(results))

\* variant: the narratives are concatenated without their task ids
_create_synthesis_from_results_unlabelled(results) ==
    IF results = <<>> THEN <<"No research findings available.">>
    ELSE <<"## Research Findings">>
         \o [i \in 1..Len(results) |-> results[i].findings]

_create_synthesis_from_results(results) ==
    IF results = <<>> THEN <<"No research findings available.">>
    ELSE <<"## Research Findings">> \o ResultSections(results)

\* variant: the round budget is not consulted
NeedsMore_flagOnly(data, iteration, maxit) ==
    DataGet(data, "needs_more_research", FALSE)

\* variant: the budget comparison is off by one
NeedsMore_inclusive(data, iteration, maxit) ==
    DataGet(data, "needs_more_research", FALSE) /\ iteration <= maxit

\* needs_more of the synthesis node
NeedsMore(data, iteration, maxit) ==
    DataGet(data, "needs_more_research", FALSE) /\ iteration < maxit

\* variant: the continue branch leaves subagent_results in the state
lead_researcher_synthesis_node_keepsResults(resp) ==
    /\ pc = "lead_synthesis"
    /\ synth_passes < MaxPasses
    /\ LET iteration == iteration_count
           merged    == CollectSources(all_sources, subagent_results)
           fallback  == _create_synthesis_from_results(subagent_results)
           synthesis == DataGet(resp.data, "synthesis", <<>>)
           needs_more == resp.parse_ok
                         /\ NeedsMore(resp.data, iteration, max_iterations)
           new_tasks == IF needs_more
                        THEN ValidNextTasks(DataGet(resp.data, "next_tasks", <<>>))
                        ELSE <<>>
           go_on     == needs_more /\ new_tasks # <<>>
           text      == IF ~resp.parse_ok THEN fallback
                        ELSE IF go_on THEN synthesis
                        ELSE IF synthesis = <<>> THEN fallback
                        ELSE synthesis
       IN  /\ all_sources' = merged
           /\ IF go_on
              THEN /\ subagent_tasks' = new_tasks
                   /\ UNCHANGED subagent_results
                   /\ iteration_count' = iteration + 1
                   /\ research_complete' = FALSE
                   /\ UNCHANGED memory_context
              ELSE /\ research_complete' = TRUE
                   /\ memory_context' = text
                   /\ UNCHANGED <<subagent_tasks, subagent_results,
                                  iteration_count>>
           /\ synth_log' =
                [ran |-> TRUE, iteration |-> iteration,
                 parsed |-> resp.parse_ok,
                 flag |-> resp.parse_ok
                          /\ DataGet(resp.data, "needs_more_research", FALSE),
                 survivors |-> IF resp.parse_ok
                               THEN ValidNextTasks(
                                        DataGet(resp.data, "next_tasks", <<>>))
                               ELSE <<>>,
                 text |-> text, continue |-> go_on]
           /\ pending' = IF go_on THEN "accepted"
                         ELSE IF pending = "executed" THEN "none"
                         ELSE pending
    /\ pc' = AfterSynthesis(research_complete', iteration_count', max_iterations)
    /\ prev' = "lead_synthesis"
    /\ synth_passes' = synth_passes + 1
    /\ gathered' = <<>>
    /\ arrival' = <<>>
    /\ UNCHANGED <<user_query, max_iterations, final_report, planner_calls,
                   plan_log, exec_count>>

lead_researcher_synthesis_node(resp) ==
    /\ pc = "lead_synthesis"
    /\ synth_passes < MaxPasses
    /\ LET iteration == iteration_count
           merged    == CollectSources(all_sources, subagent_results)
           fallback  == _create_synthesis_from_results(subagent_results)
           synthesis == DataGet(resp.data, "synthesis", <<>>)
           needs_more == resp.parse_ok
                         /\ NeedsMore(resp.data, iteration, max_iterations)
           new_tasks == IF needs_more
                        THEN ValidNextTasks(DataGet(resp.data, "next_tasks", <<>>))
                        ELSE <<>>
           go_on     == needs_more /\ new_tasks # <<>>
           text      == IF ~resp.parse_ok THEN fallback
                        ELSE IF go_on THEN synthesis
                        ELSE IF synthesis = <<>> THEN fallback
                        ELSE synthesis
       IN  /\ all_sources' = merged
           /\ IF go_on
              THEN /\ subagent_tasks' = new_tasks
                   /\ subagent_results' = <<>>
                   /\ iteration_count' = iteration + 1
                   /\ research_complete' = FALSE
                   /\ UNCHANGED memory_context
              ELSE /\ research_complete' = TRUE
                   /\ memory_context' = text
                   /\ UNCHANGED <<subagent_tasks, subagent_results,
                                  iteration_count>>
           /\ synth_log' =
                [ran |-> TRUE, iteration |-> iteration,
                 parsed |-> resp.parse_ok,
                 flag |-> resp.parse_ok
                          /\ DataGet(resp.data, "needs_more_research", FALSE),
                 survivors |-> IF resp.parse_ok
                               THEN ValidNextTasks(
                                        DataGet(resp.data, "next_tasks", <<>>))
                               ELSE <<>>,
                 text |-> text, continue |-> go_on]
           /\ pending' = IF go_on THEN "accepted"
                         ELSE IF pending = "executed" THEN "none"
                         ELSE pending
    /\ pc' = AfterSynthesis(research_complete', iteration_count', max_iterations)
    /\ prev' = "lead_synthesis"
    /\ synth_passes' = synth_passes + 1
    /\ gathered' = <<>>
    /\ arrival' = <<>>
    /\ UNCHANGED <<user_query, max_iterations, final_report, planner_calls,
                   plan_log, exec_count>>

(***************************************************************************)
(* citation_agent                                                          *)
(***************************************************************************)
\* variant: the listed indices are taken as zero-based
CitedSources_zeroBased(used, sources) ==
    LET kept == SelectSeq(used, LAMBDA i : 0 <= i /\ i < Len(sources))
    IN  [k \in 1..Len(kept) |-> sources[kept[k] + 1]]

\* [all_sources[i-1] for i in citations_used if 0 < i <= len(all_sources)]
RECURSIVE CitedSources(_, _)
CitedSources(used, sources) ==
    IF used = <<>> THEN <<>>
    ELSE IF 0 < Head(used) /\ Head(used) <= Len(sources)
         THEN <<sources[Head(used)]>> \o CitedSources(Tail(used), sources)
         ELSE CitedSources(Tail(used), sources)

citation_agent_node(resp) ==
    /\ pc = "citation_agent"
    /\ LET synthesis == memory_context
           report == DataGet(resp.data, "report", synthesis)
           citations_used == DataGet(resp.data, "citations_used", <<>>)
           cited_sources == IF citations_used # <<>>
                            THEN CitedSources(citations_used, all_sources)
                            ELSE all_sources
       IN  IF resp.parse_ok
           THEN final_report' =
                  [saved |-> TRUE, report |-> report, sources |-> cited_sources]
           ELSE \* "Citation processing failed": nothing is written
                UNCHANGED final_report
    /\ pc' = "END"
    /\ prev' = "citation_agent"
    /\ UNCHANGED <<user_query, agent_state, gathered, arrival, synth_passes,
                   planner_calls, synth_log, pending, plan_log, exec_count>>

(***************************************************************************)
(* The graph.                                                              *)
(***************************************************************************)
Next ==
    \/ \E resp \in PlanningResponses : lead_researcher_planning_node(resp)
    \/ subagent_executor_node
    \/ \E resp \in SynthesisResponses : lead_researcher_synthesis_node(resp)
    \/ \E resp \in CitationResponses : citation_agent_node(resp)

Spec == Init /\ [][Next]_vars

(***************************************************************************)
(* run_subagents_parallel on its own: every batch of at most MaxBatch      *)
(* tasks, the empty one included, right after its coroutines are created.  *)
(***************************************************************************)
BatchTasks == { SubagentTask(PlanP1), SubagentTask(PlanP2) }

InitBatch ==
    /\ pc = "gather"
    /\ user_query = "q"
    /\ subagent_tasks \in SeqsUpTo(BatchTasks, MaxBatch)
    /\ subagent_results = <<>>
    /\ memory_context = <<>>
    /\ iteration_count = 1
    /\ max_iterations = MaxRounds
    /\ research_complete = FALSE
    /\ all_sources = <<>>
    /\ final_report = [saved |-> FALSE, report |-> <<>>, sources |-> <<>>]
    /\ gathered = [i \in 1..Len(subagent_tasks) |-> Slot("pending", NoResult)]
    /\ arrival = <<>>
    /\ prev = "lead_planning"
    /\ synth_passes = 0
    /\ planner_calls = 1
    /\ synth_log = NoLog
    /\ pending = "none"
    /\ plan_log = NoPlan
    /\ exec_count = 0

NextBatch ==
    \/ \E i \in 1..Len(gathered), resp \in WorkerResponses : TaskDone(i, resp)
    \/ ExecutorReturn

SpecBatch == InitBatch /\ [][NextBatch]_vars

(***************************************************************************)
(* execute_subagent_task on its own: one task, whose final response is any *)
(* of the texts below, followed by the return of run_subagents_parallel.   *)
(***************************************************************************)
ConfidenceValues ==
    { JNumber(0), JNumber(100), JNumber(150), JNumber(-10), JString("0.8"),
      JString("1.5"), JString("high"), JTrue, JNull }

\* responses that parse to a JSON object
JsonObjects ==
    { [findings |-> f, sources |-> sl, confidence |-> c, gaps |-> g] :
        f \in {"F", NonStr}, sl \in { <<>>, <<SrcA>> },
        c \in ConfidenceValues,
        g \in { <<>>, <<"Subagent execution failed">> } }
    \cup { [findings |-> "F", sources |-> <<SrcA>>, gaps |-> <<"g">>],
           [confidence |-> JNumber(40)] }

WorkerResponsesAll ==
    WorkerResponses
    \cup { [kind |-> "json", content |-> "js", data |-> d] : d \in JsonObjects }
    \cup { [kind |-> "jsonarray", content |-> "[1]", data |-> [gaps |-> <<>>]] }

WorkerTasks == BatchTasks \cup { SubagentTask(NextN1), SubagentTask(NextEmpty) }

InitWorker ==
    /\ pc = "gather"
    /\ user_query = "q"
    /\ subagent_tasks \in { <<t>> : t \in WorkerTasks }
    /\ subagent_results = <<>>
    /\ memory_context = <<>>
    /\ iteration_count = 1
    /\ max_iterations = MaxRounds
    /\ research_complete = FALSE
    /\ all_sources = <<>>
    /\ final_report = [saved |-> FALSE, report |-> <<>>, sources |-> <<>>]
    /\ gathered = <<Slot("pending", NoResult)>>
    /\ arrival = <<>>
    /\ prev = "lead_planning"
    /\ synth_passes = 0
    /\ planner_calls = 1
    /\ synth_log = NoLog
    /\ pending = "none"
    /\ plan_log = NoPlan
    /\ exec_count = 1

WorkerDone == \E resp \in WorkerResponsesAll : TaskDone(1, resp)

NextWorker == WorkerDone \/ ExecutorReturn

SpecWorker == InitWorker /\ [][NextWorker]_vars

(***************************************************************************)
(* citation_agent on its own: every duplicate-free all_sources of at most  *)
(* MaxSources entries and every list of at most MaxCited indices, in and   *)
(* out of range.                                                           *)
(***************************************************************************)
CiteIndices == -1..(MaxSources + 1)

CitationResponsesAll ==
    CitationResponses
    \cup { [parse_ok |-> TRUE,
            data |-> [report |-> <<"R">>, citations_used |-> u]] :
             u \in SeqsUpTo(CiteIndices, MaxCited) }

InitCite ==
    /\ pc = "citation_agent"
    /\ user_query = "q"
    /\ subagent_tasks = <<>>
    /\ subagent_results = <<>>
    /\ memory_context \in { <<"S1">>, <<"No research findings available.">> }
    /\ iteration_count = 1
    /\ max_iterations = MaxRounds
    /\ research_complete = TRUE
    /\ all_sources \in { ss \in SeqsUpTo({SrcA, SrcA2, SrcB}, MaxSources) :
                            \A i, j \in 1..Len(ss) : ss[i] = ss[j] => i = j }
    /\ final_report = [saved |-> FALSE, report |-> <<>>, sources |-> <<>>]
    /\ gathered = <<>>
    /\ arrival = <<>>
    /\ prev = "lead_synthesis"
    /\ synth_passes = 1
    /\ planner_calls = 1
    /\ synth_log = NoLog
    /\ pending = "none"
    /\ plan_log = NoPlan
    /\ exec_count = 0

NextCite == \E resp \in CitationResponsesAll : citation_agent_node(resp)

SpecCite == InitCite /\ [][NextCite]_vars

(***************************************************************************)
(* The source merge of the synthesis node on its own: every duplicate-free *)
(* all_sources of at most MaxSources entries and every list of at most     *)
(* MaxFindings results, merged once and then once more.                    *)
(***************************************************************************)
SourcePool == {SrcA, SrcA2, SrcB}

StartSources ==
    { ss \in SeqsUpTo(SourcePool, MaxSources) :
        \A i, j \in 1..Len(ss) : ss[i] = ss[j] => i = j }

MergeFindings ==
    { SubagentResult("p1", "F", sl, 90, <<>>) :
        sl \in SourceLists \cup { <<SrcB, SrcA, SrcB>> } }

InitMerge ==
    /\ pc = "merge"
    /\ user_query = "q"
    /\ subagent_tasks = <<>>
    /\ subagent_results \in SeqsUpTo(MergeFindings, MaxFindings)
    /\ memory_context = <<>>
    /\ iteration_count = 1
    /\ max_iterations = MaxRounds
    /\ research_complete = FALSE
    /\ all_sources \in StartSources
    /\ final_report = [saved |-> FALSE, report |-> <<>>, sources |-> <<>>]
    /\ gathered = <<>>
    /\ arrival = <<>>
    /\ prev = "START"
    /\ synth_passes = 0
    /\ planner_calls = 0
    /\ synth_log = NoLog
    /\ pending = "none"
    /\ plan_log = NoPlan
    /\ exec_count = 0

MergeOnce ==
    /\ pc = "merge"
    /\ all_sources' = CollectSources(all_sources, subagent_results)
    /\ pc' = "merged"
    /\ UNCHANGED <<user_query, subagent_tasks, subagent_results,
                   memory_context, iteration_count, max_iterations,
                   research_complete, final_report, gathered, arrival, prev,
                   synth_passes, planner_calls, synth_log, pending, plan_log,
                   exec_count>>

MergeAgain ==
    /\ pc = "merged"
    /\ all_sources' = CollectSources(all_sources, subagent_results)
    /\ pc' = "remerged"
    /\ UNCHANGED <<user_query, subagent_tasks, subagent_results,
                   memory_context, iteration_count, max_iterations,
                   research_complete, final_report, gathered, arrival, prev,
                   synth_passes, planner_calls, synth_log, pending, plan_log,
                   exec_count>>

NextMerge == MergeOnce \/ MergeAgain

SpecMerge == InitMerge /\ [][NextMerge]_vars

(***************************************************************************)
(* Properties.                                                             *)
(***************************************************************************)

\* C1: the workflow ends after at most max_iterations synthesis passes,
\* whatever the reasoning service answers.
C1_TerminatesWithinMaxRounds == synth_passes <= max_iterations

\* C2: the round counter seen by a synthesis pass is strictly greater than
\* the one seen by the previous pass.
C2_RoundStrictlyIncreases ==
    (pc = "lead_synthesis" /\ synth_log.ran)
        => iteration_count > synth_log.iteration

\* C3: run_subagents_parallel returns one result per task, the i-th result
\* carrying the task_id of the i-th task, whatever the outcomes and the
\* completion order.
C3_BatchPairing ==
    pc = "lead_synthesis"
        => /\ Len(subagent_results) = Len(subagent_tasks)
           /\ \A i \in 1..Len(subagent_tasks) :
                 subagent_results[i].task_id = subagent_tasks[i].task_id

C3_Witness ==
    /\ pc = "lead_synthesis"
    /\ Len(subagent_tasks) = 2
    /\ subagent_tasks[1].task_id # subagent_tasks[2].task_id
    /\ arrival = <<2, 1>>
    /\ gathered[1].status = "raised"
    /\ gathered[2].status = "returned"
    /\ Len(subagent_results) = 2

\* C4: a task that raises yields a result with its own task_id, confidence 0,
\* no sources and a non-empty gaps list; every sibling's result is the one
\* its coroutine returned, unchanged.
C4_FailureIsolation ==
    pc = "lead_synthesis"
        => /\ Len(subagent_results) = Len(gathered)
           /\ \A i \in 1..Len(gathered) :
                 IF gathered[i].status = "raised"
                 THEN /\ subagent_results[i].task_id = subagent_tasks[i].task_id
                      /\ subagent_results[i].confidence = 0
                      /\ subagent_results[i].sources = <<>>
                      /\ subagent_results[i].gaps # <<>>
                 ELSE /\ gathered[i].status = "returned"
                      /\ subagent_results[i] = gathered[i].result

C4_Witness ==
    /\ pc = "lead_synthesis"
    /\ Len(subagent_tasks) = 3
    /\ arrival[1] = 2
    /\ gathered[2].status = "raised"
    /\ subagent_results[2].confidence = 0
    /\ subagent_results[1].confidence = 90
    /\ subagent_results[1].sources # <<>>
    /\ subagent_results[3].confidence = 50

\* C5: a synthesis response that asks for more research but leaves no valid
\* next task (all six fields, id and objective not empty) marks the research
\* complete and routes to citation; the graph never loops back to planning
\* without at least one valid task installed.
C5_ForcedTermination ==
    /\ (/\ prev = "lead_synthesis"
        /\ synth_log.flag
        /\ \A i \in 1..Len(synth_log.survivors) :
              \/ synth_log.survivors[i].task_id = ""
              \/ synth_log.survivors[i].objective = "")
          => (research_complete /\ pc = "citation_agent")
    /\ (prev = "lead_synthesis" /\ pc = "lead_planning")
          => \E i \in 1..Len(subagent_tasks) :
                /\ subagent_tasks[i].task_id # ""
                /\ subagent_tasks[i].objective # ""

\* C6: every run that ends has persisted a final report through
\* save_final_report.
C6_ReportPersisted == pc = "END" => final_report.saved

\* C7: the synthesis text the citation step receives is the one produced by
\* the most recent synthesis pass.
C7_CitationGetsLatestSynthesis ==
    pc = "citation_agent" => memory_context = synth_log.text

\* C8: the planner is consulted only in the first round, and a batch executed
\* after a continue decision is exactly the next tasks of that decision.
C8_PlannerOnlyFirstRound ==
    /\ planner_calls <= 1
    /\ (pc = "gather" /\ synth_log.continue)
          => subagent_tasks = synth_log.survivors

\* C9: next tasks accepted by a continue decision are executed and
\* synthesized before the session is finalized.
C9_AcceptedTasksExecuted ==
    pc \in {"citation_agent", "END"} => pending # "accepted"

\* C10: all_sources holds at most one entry per url.
C10_OneEntryPerUrl ==
    \A i, j \in 1..Len(all_sources) :
        all_sources[i].url = all_sources[j].url => i = j


\* C11: merging the sources of the same results a second time leaves
\* all_sources as the first merge made it.
C11_MergeIdempotent ==
    [][pc = "merged" => all_sources' = all_sources]_vars

C11_Witness ==
    /\ pc = "remerged"
    /\ Len(subagent_results) = 2
    /\ subagent_results[1].sources # <<>>
    /\ Len(all_sources) = 3

\* C12: synthesis continues only when the response asks for more research
\* and iteration_count < max_iterations; at iteration_count >= max_iterations
\* it stops and leaves subagent_tasks as they are.
C12_ContinueOnlyWithinBudget ==
    [][(pc = "lead_synthesis" /\ pc' # "lead_synthesis")
          => /\ (~research_complete' \/ synth_log'.continue)
                    => (synth_log'.flag /\ iteration_count < max_iterations)
             /\ iteration_count >= max_iterations
                    => /\ research_complete'
                       /\ ~synth_log'.continue
                       /\ subagent_tasks' = subagent_tasks
                       /\ iteration_count' = iteration_count]_vars

C12_Witness ==
    /\ prev = "lead_synthesis"
    /\ user_query = "q"
    /\ synth_log.iteration >= max_iterations
    /\ synth_log.flag
    /\ synth_log.survivors # <<>>
    /\ research_complete
    /\ subagent_tasks # synth_log.survivors

\* C13: a next-task candidate with an empty id or an empty objective is
\* dropped, so no accepted next task has an empty id or objective.
C13_NoEmptyIdAccepted ==
    (prev = "lead_synthesis" /\ synth_log.continue)
        => \A i \in 1..Len(subagent_tasks) :
              /\ subagent_tasks[i].task_id # ""
              /\ subagent_tasks[i].objective # ""

\* C14: after an unparsable synthesis response the accumulated synthesis is
\* the results' narratives labelled by task id, the research is complete,
\* all_sources holds the results' sources and the next node is citation.
C14_DegradedSynthesis ==
    (prev = "lead_synthesis" /\ ~synth_log.parsed)
        => /\ research_complete
           /\ pc = "citation_agent"
           /\ ~synth_log.continue
           /\ \A i \in 1..Len(subagent_results) :
                 \A j \in 1..Len(subagent_results[i].sources) :
                    \E k \in 1..Len(all_sources) :
                       all_sources[k] = subagent_results[i].sources[j]
           /\ subagent_results # <<>>
                 => /\ Len(memory_context) = 1 + 3 * Len(subagent_results)
                    /\ \A i \in 1..Len(subagent_results) :
                          /\ memory_context[3 * i] = subagent_results[i].task_id
                          /\ memory_context[3 * i + 1] =
                                subagent_results[i].findings

C14_Witness ==
    /\ prev = "lead_synthesis"
    /\ ~synth_log.parsed
    /\ Len(subagent_results) = 2
    /\ subagent_results[1].task_id # subagent_results[2].task_id
    /\ Len(all_sources) >= 2
    /\ pc = "citation_agent"

\* C15: after a planning response that cannot be used, no task is executed
\* in that round: the next node is synthesis, over an empty batch.
C15_FailedPlanSkipsExecution ==
    (prev = "lead_planning" /\ plan_log.outcome = "failed")
        => (pc = "lead_synthesis" /\ subagent_results = <<>>)

\* C16: after a plan with zero tasks the executor is skipped, synthesis runs
\* over an empty batch, and the synthesis text citation receives is not empty.
C16_EmptyPlanYieldsSynthesis ==
    /\ (prev = "lead_planning" /\ plan_log.outcome = "ok" /\ plan_log.n = 0)
          => (pc = "lead_synthesis" /\ subagent_results = <<>>)
    /\ (pc = "citation_agent" /\ plan_log.outcome = "ok" /\ plan_log.n = 0)
          => memory_context # <<>>

\* C17: when the first plan has tasks, they all succeed and the first
\* synthesis pass decides to stop, the session is finalized after one planning
\* pass, one batch and one synthesis pass, with iteration_count = 1.
C17_SingleRoundSession ==
    (/\ synth_passes = 1
     /\ ~synth_log.continue
     /\ plan_log.outcome = "ok"
     /\ plan_log.n >= 1
     /\ \A i \in 1..Len(subagent_results) : subagent_results[i].confidence > 0)
        => /\ pc \in {"citation_agent", "END"}
           /\ planner_calls = 1
           /\ exec_count = 1
           /\ Len(subagent_results) = plan_log.n
           /\ iteration_count = 1
           /\ research_complete

C17_Witness ==
    /\ pc = "END"
    /\ synth_passes = 1
    /\ synth_log.parsed
    /\ ~synth_log.flag
    /\ plan_log.outcome = "ok"
    /\ plan_log.n = 2
    /\ Len(subagent_results) = 2
    /\ \A i \in 1..2 : subagent_results[i].confidence = 90
    /\ iteration_count = 1
    /\ final_report.saved

\* C18: the state's results change only when the whole batch has completed
\* (or when synthesis clears them); while a coroutine is pending nothing but
\* the batch runs and no state field changes.
C18_BatchAtomic ==
    [][/\ subagent_results' # subagent_results
            => \/ /\ pc = "gather"
                  /\ \A i \in 1..Len(gathered) : gathered[i].status # "pending"
                  /\ subagent_results = <<>>
                  /\ Len(subagent_results') = Len(subagent_tasks)
                  /\ pc' = "lead_synthesis"
               \/ /\ pc = "lead_synthesis"
                  /\ subagent_results' = <<>>
       /\ (pc = "gather"
             /\ \E i \in 1..Len(gathered) : gathered[i].status = "pending")
            => /\ pc' = "gather"
               /\ UNCHANGED agent_state
       /\ pc' = "subagent_executor" => pc = "lead_planning"]_vars

C18_Witness ==
    /\ pc = "lead_synthesis"
    /\ prev = "subagent_executor"
    /\ synth_passes >= 1
    /\ Len(subagent_results) = 2
    /\ arrival = <<2, 1>>
    /\ all_sources # <<>>

\* C19: a batch in which tasks fail still ends with one result per task, the
\* failed ones encoded with confidence 0, and synthesis runs next; and the
\* session is still finalized within its max_iterations synthesis passes, so
\* no batch, with a failed task or not, is running after that many passes.
C19_WorkerFailureNotFatal ==
    /\ (prev = "subagent_executor"
          /\ \E i \in 1..Len(gathered) : gathered[i].status = "raised")
          => /\ pc = "lead_synthesis"
             /\ Len(subagent_results) = Len(subagent_tasks)
             /\ \A i \in 1..Len(gathered) :
                   gathered[i].status = "raised"
                      => subagent_results[i].confidence = 0
    /\ (pc = "gather"
          /\ \E i \in 1..Len(gathered) : gathered[i].status = "raised")
          => synth_passes < max_iterations

\* C20: at finalization the state holds the findings of every executed
\* round: at least one per batch handed to the executor.
C20_FindingsAppendOnly ==
    pc \in {"citation_agent", "END"}
        => Len(subagent_results) >= exec_count


\* C21: no step removes or reorders an entry of all_sources, and after a
\* synthesis pass all_sources holds every source of the results it read.
C21_SourcesAppendOnly ==
    [][/\ Len(all_sources) <= Len(all_sources')
       /\ \A i \in 1..Len(all_sources) : all_sources'[i] = all_sources[i]
       /\ (pc = "lead_synthesis" /\ pc' # "lead_synthesis")
             => \A i \in 1..Len(subagent_results) :
                   \A j \in 1..Len(subagent_results[i].sources) :
                      \E k \in 1..Len(all_sources') :
                         all_sources'[k] = subagent_results[i].sources[j]]_vars

C21_Witness ==
    /\ prev = "lead_synthesis"
    /\ synth_passes >= 2
    /\ exec_count >= 2
    /\ all_sources = <<SrcA, SrcA2, SrcB>>
    /\ subagent_results # <<>>
    /\ \A i \in 1..Len(subagent_results) :
          subagent_results[i].sources = <<SrcA2, SrcB>>


\* C22: research_complete never goes back to false; once it is true or
\* citation has been entered, only citation and END follow; citation is
\* entered from synthesis only, runs once, and nothing runs after END; and
\* citation does run in every session: the synthesis pass that uses up the
\* max_iterations passes of the session is the last and hands over to it.
C22_TerminalOnce ==
    [][/\ research_complete => research_complete'
       /\ research_complete' => pc' \in {"citation_agent", "END"}
       /\ pc' = "citation_agent" => pc = "lead_synthesis"
       /\ pc = "citation_agent" => (pc' = "END" /\ UNCHANGED agent_state)
       /\ pc # "END"
       /\ (pc = "lead_synthesis" /\ synth_passes' >= max_iterations)
             => pc' = "citation_agent"]_vars

\* C23: a step of the executor node leaves iteration_count, max_iterations,
\* all_sources, memory_context, research_complete and subagent_tasks as they
\* are, and the completion of a single worker leaves subagent_results too.
C23_ExecutorFrame ==
    [][/\ pc \in {"subagent_executor", "gather"}
             => UNCHANGED <<iteration_count, max_iterations, all_sources,
                            memory_context, research_complete, subagent_tasks>>
       /\ (pc = "gather" /\ pc' = "gather")
             => subagent_results' = subagent_results]_vars

C23_Witness ==
    /\ prev = "subagent_executor"
    /\ pc = "lead_synthesis"
    /\ iteration_count = 2
    /\ all_sources # <<>>
    /\ subagent_tasks = <<SubagentTask(NextN2), SubagentTask(NextN1)>>
    /\ Len(subagent_results) = 2
    /\ subagent_results[1].confidence = 0
    /\ subagent_results[2].confidence = 90


\* C24: when a planning response parses, the plan installed is made of its
\* valid subtask entries, in their order: invalid entries are dropped, and
\* neither they nor an out-of-range plan field discard the valid ones.
C24_InvalidPlanEntriesDropped ==
    [][\A resp \in PlanningResponses :
          (resp.parse_ok /\ user_query # ""
             /\ lead_researcher_planning_node(resp))
            => LET kept == SelectSeq(resp.subagent_tasks, SubagentTaskValid)
               IN  subagent_tasks' =
                      [i \in 1..Len(kept) |-> SubagentTask(kept[i])]]_vars


\* C25: the tasks of a batch the executor runs have non-empty, pairwise
\* distinct ids.
C25_BatchIdsUnique ==
    pc = "gather"
        => \A i, j \in 1..Len(subagent_tasks) :
              /\ subagent_tasks[i].task_id # ""
              /\ subagent_tasks[i].task_id = subagent_tasks[j].task_id => i = j


\* C26: every result the executor returns has a confidence between 0 and 1,
\* whatever confidence value the worker's response carries.
C26_ConfidenceInRange ==
    /\ \A i \in 1..Len(gathered) :
          gathered[i].status = "returned"
             => /\ gathered[i].result.confidence >= 0
                /\ gathered[i].result.confidence <= 100
    /\ \A i \in 1..Len(subagent_results) :
          /\ subagent_results[i].confidence >= 0
          /\ subagent_results[i].confidence <= 100

C26_Witness ==
    /\ pc = "lead_synthesis"
    /\ Len(subagent_results) = 1
    /\ subagent_results[1].confidence = 50
    /\ subagent_results[1].findings = "js"
    /\ subagent_results[1].sources = <<>>


\* C27: when synthesis is about to run, subagent_results holds the outcome
\* of the batch the executor has just run, one result per current task in
\* task order, or is empty when planning routed to synthesis directly.
C27_SynthesisReadsFreshBatch ==
    pc = "lead_synthesis"
        => IF prev = "subagent_executor"
           THEN /\ Len(gathered) = Len(subagent_tasks)
                /\ Len(subagent_results) = Len(subagent_tasks)
                /\ \A i \in 1..Len(subagent_tasks) :
                      /\ subagent_results[i].task_id = subagent_tasks[i].task_id
                      /\ gathered[i].status = "returned"
                            => subagent_results[i] = gathered[i].result
                      /\ gathered[i].status = "raised"
                            => subagent_results[i].confidence = 0
           ELSE subagent_results = <<>>

C27_Witness ==
    /\ pc = "lead_synthesis"
    /\ prev = "lead_planning"
    /\ synth_passes >= 1
    /\ exec_count >= 1
    /\ plan_log.outcome = "ok"
    /\ plan_log.n = 0
    /\ all_sources # <<>>
    /\ subagent_results = <<>>


\* C28: in every reachable state 0 <= iteration_count <= max_iterations.
C28_CounterWithinBudget ==
    /\ iteration_count >= 0
    /\ iteration_count <= max_iterations

C28_Witness ==
    /\ prev = "lead_synthesis"
    /\ synth_log.continue
    /\ synth_log.iteration = 2
    /\ iteration_count = 3
    /\ max_iterations = 3
    /\ pc = "citation_agent"


\* C29: a worker whose response is not valid JSON or fails result validation
\* returns a result with its task id, the raw text, no sources, some gap and
\* confidence 0.5 or 0.3; and a result with confidence 0 and the gap
\* "Subagent execution failed" comes only from a task that raised.
C29_MalformedNeverZero ==
    [][/\ \A resp \in WorkerResponsesAll :
            LET conf == Float(DataGet(resp.data, "confidence", JNumber(70)))
                malformed ==
                    \/ resp.kind \in {"nonjson", "jsonarray"}
                    \/ /\ resp.kind = "json"
                       /\ \/ conf.err # ""
                          \/ conf.value < 0
                          \/ conf.value > 100
                          \/ DataGet(resp.data, "findings", "") = NonStr
            IN  (malformed /\ TaskDone(1, resp))
                   => /\ gathered'[1].status = "returned"
                      /\ gathered'[1].result.task_id = subagent_tasks[1].task_id
                      /\ gathered'[1].result.findings = resp.content
                      /\ gathered'[1].result.sources = <<>>
                      /\ gathered'[1].result.gaps # <<>>
                      /\ gathered'[1].result.confidence \in {50, 30}
       /\ (pc = "gather" /\ pc' = "lead_synthesis")
            => \A i \in 1..Len(subagent_results') :
                  (/\ subagent_results'[i].confidence = 0
                   /\ \E k \in 1..Len(subagent_results'[i].gaps) :
                         subagent_results'[i].gaps[k] =
                            "Subagent execution failed")
                     => gathered[i].status = "raised"]_vars

\* C29, amended: as above for the malformed responses; a returned result has
\* confidence 0 only when a well-formed response states confidence 0, and a
\* result of the batch has confidence 0 only for a task that raised or whose
\* own returned result has it.
C29_MalformedNeverZero_Amended ==
    [][/\ \A resp \in WorkerResponsesAll :
            LET conf == Float(DataGet(resp.data, "confidence", JNumber(70)))
                malformed ==
                    \/ resp.kind \in {"nonjson", "jsonarray"}
                    \/ /\ resp.kind = "json"
                       /\ \/ conf.err # ""
                          \/ conf.value < 0
                          \/ conf.value > 100
                          \/ DataGet(resp.data, "findings", "") = NonStr
            IN  TaskDone(1, resp)
                   => /\ malformed
                         => /\ gathered'[1].status = "returned"
                            /\ gathered'[1].result.task_id =
                                  subagent_tasks[1].task_id
                            /\ gathered'[1].result.findings = resp.content
                            /\ gathered'[1].result.sources = <<>>
                            /\ gathered'[1].result.gaps # <<>>
                            /\ gathered'[1].result.confidence \in {50, 30}
                      /\ (/\ gathered'[1].status = "returned"
                          /\ gathered'[1].result.confidence = 0)
                         => /\ resp.kind = "json"
                            /\ ~malformed
                            /\ "confidence" \in DOMAIN resp.data
                            /\ conf.value = 0
       /\ (pc = "gather" /\ pc' = "lead_synthesis")
            => \A i \in 1..Len(subagent_results') :
                  subagent_results'[i].confidence = 0
                     => \/ gathered[i].status = "raised"
                        \/ /\ gathered[i].status = "returned"
                           /\ gathered[i].result = subagent_results'[i]]_vars

C29_Witness ==
    /\ pc = "lead_synthesis"
    /\ gathered[1].status = "returned"
    /\ subagent_results[1].task_id = "p2"
    /\ subagent_results[1].findings = "[1]"
    /\ subagent_results[1].confidence = 30
    /\ subagent_results[1].gaps # <<>>


\* C30: the sources saved with the report are entries of all_sources: with
\* indices listed, the entries at the indices within 1..Len(all_sources), in
\* the listed order; with no index listed, the whole of all_sources.
C30_CitedSourcesSelected ==
    [][\A resp \in CitationResponsesAll :
          (resp.parse_ok /\ citation_agent_node(resp))
            => LET used == DataGet(resp.data, "citations_used", <<>>)
                   inRange == SelectSeq(used,
                                LAMBDA i : i >= 1 /\ i <= Len(all_sources))
                   saved == final_report'.sources
               IN  /\ final_report'.saved
                   /\ \A k \in 1..Len(saved) :
                         \E j \in 1..Len(all_sources) : saved[k] = all_sources[j]
                   /\ IF used = <<>> THEN saved = all_sources
                      ELSE /\ Len(saved) = Len(inRange)
                           /\ \A k \in 1..Len(inRange) :
                                 saved[k] = all_sources[inRange[k]]]_vars

C30_Witness ==
    /\ pc = "END"
    /\ final_report.saved
    /\ all_sources = <<SrcB, SrcA>>
    /\ final_report.sources = <<SrcA, SrcB>>

====
